---- MODULE Spec2Model ----
(***************************************************************************)
(* Model of src/src/blockchain.js: the Blockchain class (chain array,     *)
(* height counter, the append operation _addBlock with its await point,   *)
(* the submitStar workflow, the queries and validateChain).               *)
(*                                                                         *)
(* JavaScript runs one job at a time: a handler runs without interruption *)
(* up to its next await, so every action below is one such run.           *)
(* The Block class (block.js) is required by the file but is not part of  *)
(* the sources at hand; NewBlock, validate and getBData follow the        *)
(* design document.                                                       *)
(***************************************************************************)
EXTENDS Integers, Sequences, FiniteSets, TLC

VARIABLES
    now,          \* the wall clock, epoch seconds (new Date().getTime() / 1000)
    constructed,  \* FALSE until the constructor body (lines 29-42) has run
    chain,        \* this.chain
    height,       \* this.height
    calls,        \* the submitStar invocations: position and locals of each
    lastOp        \* what the handler run that led here left to observe: the outcome
                  \* of a query, a validation or a rejected submission

vars == <<now, constructed, chain, height, calls, lastOp>>

----------------------------------------------------------------------------
(* Bounds of the model *)

MaxCalls == 2      \* submitStar invocations made by clients (slot 0 is the constructor's)
MaxTicks == 1      \* times the clock advances

(* The challenge window of the commented-out check, 5 * 60 seconds *)
ChallengeWindow == 300

(* one Tick of the clock is a period just longer than the window *)
ClockStep == ChallengeWindow + 1
MaxTime == MaxTicks * ClockStep

(* the wallet address and the star of the submissions clients make (the
   constructor submits for an address of its own, CtorAddress) *)
Addresses == {"addrA"}
Stars == {"star1"}
Slots == 0..MaxCalls
ClockValues == {t \in 0..MaxTime : t % ClockStep = 0}

(* The clock's origin is a moment more than a window after the stamp of the
   message the constructor submits (1641555438, January 2022) *)
CtorStamp == 0 - (ChallengeWindow + 1)

(* the integers that occur as decimal strings *)
Numerals == ClockValues \cup {CtorStamp}

----------------------------------------------------------------------------
(* JavaScript values *)

Null == <<>>
Undefined == <<"undefined">>
NaN == <<"NaN">>
Num(n) == <<"num", n>>

(* a - b on JavaScript numbers *)
JsSub(a, b) == IF a = NaN \/ b = NaN THEN NaN ELSE Num(a[2] - b[2])

(* a > n for a JavaScript number a and an integer n: NaN compares false *)
JsGreater(a, n) == a # NaN /\ a[2] > n

(* parseInt(s): the number a string of decimal digits denotes, NaN for a
   string that does not start with a digit *)
ParseInt(s) ==
    IF \E n \in Numerals : ToString(n) = s
    THEN Num(CHOOSE n \in Numerals : ToString(n) = s)
    ELSE NaN

(* new Date().getTime().toString().slice(0, -3): the epoch seconds as a string *)
EpochSecondsString == ToString(now)

(* message.split(':') of a message built as f1:f2:f3 is the sequence of its
   fields; a message is kept as that sequence *)
Message(address, stamp) == <<address, stamp, "starRegistry">>
SplitColon(message) == message

----------------------------------------------------------------------------
(* Blocks *)

GenesisData == [data |-> "Genesis Block"]
StarData(address, star) == [owner |-> address, star |-> star]

(* the body of a block is its data, serialised and hex-encoded *)
Encode(data) == <<"hex", data>>
Decode(body) == body[2]

(* new BlockClass.Block(data) *)
NewBlock(data) ==
    [hash |-> Null, height |-> 0, body |-> Encode(data), time |-> 0,
     previousBlockHash |-> Null]

(* JSON.stringify(block): the fields in the order the constructor sets them *)
JSONStringify(b) == <<b.hash, b.height, b.body, b.time, b.previousBlockHash>>

(* SHA256(s).toString(): a digest, distinct for distinct inputs *)
SHA256(s) == <<"sha256", s>>

(* block.validate(): recomputes the digest of the block without its hash and
   compares it to the stored hash; resolves with the boolean *)
BlockValidate(b) == SHA256(JSONStringify([b EXCEPT !.hash = Null])) = b.hash

(* block.getBData(): the decoded body *)
GetBData(b) == Decode(b.body)

(* data.owner, undefined when the decoded object has no such field *)
OwnerOf(data) == IF "owner" \in DOMAIN data THEN data.owner ELSE "undefined"

----------------------------------------------------------------------------
(* _addBlock, lines 83-111 *)

(* line 92: the condition under which the previous hash is read (and the
   handler suspends at the await of line 94) *)
LinksToPrevious(h) == h > 0

SealedHashFirst(block, t) ==
    [[block EXCEPT !.hash = SHA256(JSONStringify(block))] EXCEPT !.time = t]

(* lines 98-100: the block stamped and hashed *)
Sealed(block, t) ==
    LET stamped == [block EXCEPT !.time = t]
    IN  [stamped EXCEPT !.hash = SHA256(JSONStringify(stamped))]

(* lines 90-96: the block as it is when the handler reaches line 97, or the
   await of line 94 *)
Prepared(block, ch, h) ==
    LET numbered == [block EXCEPT !.height = h + 1]
    IN  IF LinksToPrevious(h)
        THEN [numbered EXCEPT !.previousBlockHash = ch[Len(ch)].hash]
        ELSE numbered

PushedInFront(ch, block) == <<block>> \o ch

(* line 102: self.chain.push(block) *)
Push(ch, block) == Append(ch, block)

(* the chain and the height, as one value *)
Store(ch, h) == [chain |-> ch, height |-> h]

(* _addBlock run to its end without suspending (lines 90-105) *)
AppendTo(st, block, t) ==
    Store(Push(st.chain, Sealed(Prepared(block, st.chain, st.height), t)),
          st.height + 1)

(* line 94 throws (caught at line 107) when the chain has no last block *)
AddBlockThrows(st) == LinksToPrevious(st.height) /\ Len(st.chain) = 0

----------------------------------------------------------------------------
(* initializeChain, lines 53-58 *)

NeedsGenesisAlways(h) == TRUE

NeedsGenesisUpToZero(h) == h <= 0

(* line 54 *)
NeedsGenesis(h) == h = -1

InitializeChainOn(st, t) ==
    IF NeedsGenesis(st.height) /\ ~AddBlockThrows(st)
    THEN AppendTo(st, NewBlock(GenesisData), t)
    ELSE st

----------------------------------------------------------------------------
(* submitStar, lines 144-165 *)

(* the outcomes of bitcoinMessage.verify(message, address, signature) *)
VerifyOutcomes == {"true", "false", "throws"}

(* line 154 (the elapsed-time test of lines 151-153 is commented out) *)
Authorized(v, elapsed) == v = "true"

InvalidSignatureError == "Message with address and signature failed the validation"
VerifierError == "error thrown by bitcoinMessage.verify"
AddBlockError == "TypeError: Cannot read properties of undefined (reading 'hash')"

(* what lastOp holds when the latest handler run left nothing to observe *)
NoOp == [kind |-> "none"]

(* an invocation of submitStar: its position, its arguments and its locals *)
IdleCall ==
    [pc |-> "idle", address |-> "", star |-> "", elapsed_time |-> NaN,
     block |-> NewBlock(GenesisData), updated_height |-> 0]

(* lines 148-150 *)
ElapsedTime(message) ==
    LET time_message == ParseInt(SplitColon(message)[2])
        current_time == ParseInt(EpochSecondsString)
    IN  JsSub(current_time, time_message)

StoreOnRejectionAppended(st, address, star) ==
    AppendTo(st, NewBlock(StarData(address, star)), now)

(* lines 161-163: the store a rejected submission leaves is the one it found *)
StoreOnRejection(st, address, star) == st

(* One run of submitStar from its call to its first suspension or to its
   rejection: the store it leaves, and either the error it rejects with or
   the invocation's record. *)
SubmitStarRun(st, address, message, v, star) ==
    LET elapsed == ElapsedTime(message)
        call == [IdleCall EXCEPT !.address = address, !.star = star,
                                 !.elapsed_time = elapsed]
        st1 == InitializeChainOn(st, now)
        block == NewBlock(StarData(address, star))
    IN  IF ~Authorized(v, elapsed)
        THEN [store |-> StoreOnRejection(st, address, star), rejected |-> TRUE,
              error |-> IF v = "throws" THEN VerifierError ELSE InvalidSignatureError,
              verifier |-> v, call |-> IdleCall]
        ELSE IF AddBlockThrows(st1)
        THEN [store |-> st1, rejected |-> TRUE, error |-> AddBlockError,
              verifier |-> v, call |-> IdleCall]
        ELSE IF LinksToPrevious(st1.height)
        THEN \* suspended at the await of line 94
             [store |-> st1, rejected |-> FALSE, error |-> "", verifier |-> v,
              call |-> [call EXCEPT !.pc = "awaitPrev",
                            !.block = Prepared(block, st1.chain, st1.height),
                            !.updated_height = st1.height + 1]]
        ELSE \* _addBlock ran through; submitStar waits at line 158
             [store |-> AppendTo(st1, block, now), rejected |-> FALSE, error |-> "",
              verifier |-> v,
              call |-> [call EXCEPT !.pc = "awaitAdd",
                            !.block = AppendTo(st1, block, now).chain[Len(st1.chain) + 1],
                            !.updated_height = st1.height + 1]]

(* what a run of submitStar leaves to observe: its rejection *)
SubmitStarOp(run) ==
    IF run.rejected
    THEN [kind |-> "submitStar", outcome |-> "rejected", error |-> run.error,
          verifier |-> run.verifier]
    ELSE NoOp

(* the arguments of the submitStar call the constructor makes (lines 32-39);
   the signature is a valid signature of the message by the address, so the
   verifier returns true *)
CtorAddress == "1PqXTNFDEFmupGYFDzYhJUn4jgTtGPU51A"
CtorMessage == Message(CtorAddress, ToString(CtorStamp))
CtorVerify == "true"
CtorStar == "my luckystar"

Init ==
    /\ now = 0
    /\ constructed = FALSE
    /\ chain = <<>>
    /\ height = -1
    /\ calls = [p \in Slots |-> IdleCall]
    /\ lastOp = NoOp

(* the constructor body, lines 29-42: initializeChain(), validateChain()
   (its result is dropped) and the submitStar call, which runs up to its
   first await *)
Constructor ==
    /\ ~constructed
    /\ LET st1 == InitializeChainOn(Store(chain, height), now)
           run == SubmitStarRun(st1, CtorAddress, CtorMessage, CtorVerify, CtorStar)
       IN  /\ chain' = run.store.chain
           /\ height' = run.store.height
           /\ calls' = [calls EXCEPT ![0] = run.call]
           /\ lastOp' = SubmitStarOp(run)
    /\ constructed' = TRUE
    /\ UNCHANGED now

(* a client calls initializeChain(); before is the store it found *)
InitializeChain ==
    /\ constructed
    /\ LET st1 == InitializeChainOn(Store(chain, height), now)
       IN  chain' = st1.chain /\ height' = st1.height
    /\ lastOp' = [kind |-> "initializeChain", before |-> Store(chain, height)]
    /\ UNCHANGED <<now, constructed, calls>>

(* the stamps of the messages clients submit: issued at a past reading of the clock *)
Stamps == {ToString(t) : t \in {u \in ClockValues : u <= now}}

(* the records left for the invocations clients make, taken in order *)
FreeSlots == {p \in Slots \ {0} : calls[p].pc = "idle"}
NextSlot == CHOOSE p \in FreeSlots : \A q \in FreeSlots : p <= q

(* a client calls submitStar(address, message, signature, star); an
   invocation that gets past the checks takes the next record *)
SubmitStar(address, stamp, v, star) ==
    /\ constructed
    /\ LET run == SubmitStarRun(Store(chain, height), address,
                                Message(address, stamp), v, star)
       IN  /\ run.rejected \/ FreeSlots # {}
           /\ chain' = run.store.chain
           /\ height' = run.store.height
           /\ calls' = IF run.rejected THEN calls
                       ELSE [calls EXCEPT ![NextSlot] = run.call]
           /\ lastOp' = SubmitStarOp(run)
    /\ UNCHANGED <<now, constructed>>

(* _addBlock resumes after the await of line 94 (lines 97-105); the record
   drops elapsed_time, which nothing reads after line 150 *)
AddBlockResume(p) ==
    /\ calls[p].pc = "awaitPrev"
    /\ LET block == Sealed(calls[p].block, now)
       IN  /\ chain' = Push(chain, block)
           /\ height' = calls[p].updated_height
           /\ calls' = [calls EXCEPT ![p].pc = "awaitAdd", ![p].block = block,
                                   ![p].elapsed_time = NaN]
    /\ lastOp' = NoOp
    /\ UNCHANGED <<now, constructed>>

(* submitStar resumes after the await of line 158 and resolves with the
   block (line 159); its locals are gone *)
SubmitStarResolve(p) ==
    /\ calls[p].pc = "awaitAdd"
    /\ calls' = [calls EXCEPT ![p].pc = "resolved", ![p].elapsed_time = NaN]
    /\ lastOp' = NoOp
    /\ UNCHANGED <<now, constructed, chain, height>>

----------------------------------------------------------------------------
(* getChainHeight, lines 63-69 *)

GetChainHeight ==
    /\ constructed
    /\ lastOp' = [kind |-> "getChainHeight", value |-> height]
    /\ UNCHANGED <<now, constructed, chain, height, calls>>

----------------------------------------------------------------------------
(* requestMessageOwnershipVerification, lines 121-125 *)

(* line 123: the string is written between double quotes, so it is not a
   template: the promise resolves with these characters, whatever the
   address and the clock.  Kept, as every message, as its fields between
   colons. *)
OwnershipMessage(address) ==
    <<"${address}", "${new Date().getTime().toString().slice(0, -3)}", "starRegistry">>

RequestMessageOwnershipVerification(address) ==
    /\ constructed
    /\ lastOp' = [kind |-> "requestMessageOwnershipVerification",
                  address |-> address,
                  requestedAt |-> now,
                  message |-> OwnershipMessage(address)]
    /\ UNCHANGED <<now, constructed, chain, height, calls>>

----------------------------------------------------------------------------
(* getBlockByHeight, lines 199-209 *)

(* line 202: the first block with the height asked for, null when none has *)
BlockAtHeight(ch, h) ==
    LET found == SelectSeq(ch, LAMBDA b : b.height = h)
    IN  IF found # <<>> THEN <<found[1]>> ELSE Null

(* the heights asked for: the first, the current one and one beyond it *)
HeightsAsked == {0, height, height + 1}

GetBlockByHeightSplicing(h) ==
    /\ constructed
    /\ lastOp' = [kind |-> "getBlockByHeight", height |-> h,
                  value |-> BlockAtHeight(chain, h)]
    /\ chain' = SelectSeq(chain, LAMBDA b : b.height # h)
    /\ UNCHANGED <<now, constructed, height, calls>>

GetBlockByHeight(h) ==
    /\ constructed
    /\ lastOp' = [kind |-> "getBlockByHeight", height |-> h,
                  value |-> BlockAtHeight(chain, h)]
    /\ UNCHANGED <<now, constructed, chain, height, calls>>

----------------------------------------------------------------------------
(* getBlockByHash, lines 173-192 *)

(* line 177: the blocks whose hash is the one asked for *)
MatchingBlocks(ch, hash) == SelectSeq(ch, LAMBDA b : b.hash = hash)

(* matching_block_array.lenght: an array has no property of that name *)
Lenght(arr) == Undefined

(* line 180 *)
ExactlyOneMatch(arr) == Lenght(arr) = Num(1)

(* line 183: an array is never == null *)
NoMatch(arr) == FALSE

NotFoundError == "Blockchain does countain a block with this hash value"
AmbiguousError == "Blockchain countains more than one block with the same hash value"

GetBlockByHashResult(ch, hash) ==
    LET arr == MatchingBlocks(ch, hash)
    IN  IF ExactlyOneMatch(arr)
        THEN [outcome |-> "resolved", blocks |-> arr, error |-> ""]
        ELSE IF NoMatch(arr)
        THEN [outcome |-> "rejected", blocks |-> <<>>, error |-> NotFoundError]
        ELSE [outcome |-> "rejected", blocks |-> <<>>, error |-> AmbiguousError]

(* a hash no block has *)
AbsentHash == SHA256(<<>>)

HashesAsked == {chain[i].hash : i \in 1..Len(chain)} \cup {AbsentHash}

GetBlockByHash(hash) ==
    /\ constructed
    /\ lastOp' = [kind |-> "getBlockByHash",
                  matches |-> Len(MatchingBlocks(chain, hash)),
                  result |-> GetBlockByHashResult(chain, hash)]
    /\ UNCHANGED <<now, constructed, chain, height, calls>>

----------------------------------------------------------------------------
(* getStarsByWalletAddress, lines 217-234 *)

(* lines 224-227: what the callback does with one decoded body *)
Collect(stars, data, address) ==
    IF OwnerOf(data) = address THEN Append(stars, data) ELSE stars

(* the stars array after the callbacks of the first n blocks have resumed,
   in the order of the blocks *)
RECURSIVE CollectUpTo(_, _, _)
CollectUpTo(ch, n, address) ==
    IF n = 0 THEN <<>>
    ELSE Collect(CollectUpTo(ch, n - 1, address), GetBData(ch[n]), address)

QueryAddresses == Addresses \cup {CtorAddress}

(* line 222: forEach starts one callback per block; each calls getBData()
   and suspends at the await of line 223.  Line 230 then resolves the
   promise with the stars array, still empty; the callbacks fill it when
   they resume.  scanned is the number of callbacks started. *)
GetStarsByWalletAddress(address) ==
    /\ constructed
    /\ lastOp' = [kind |-> "getStarsByWalletAddress", address |-> address,
                  scanned |-> Len(chain),
                  pending |-> TRUE,
                  stars |-> <<>>,
                  resolved |-> TRUE]
    /\ UNCHANGED <<now, constructed, chain, height, calls>>

(* the callbacks resume after their await (lines 224-228): they are
   consecutive jobs of the job queue, run in the order of the blocks *)
StarsCallbacksResume ==
    /\ lastOp.kind = "getStarsByWalletAddress"
    /\ lastOp.pending
    /\ lastOp' = [lastOp EXCEPT
                      !.pending = FALSE,
                      !.stars = CollectUpTo(chain, lastOp.scanned, lastOp.address)]
    /\ UNCHANGED <<now, constructed, chain, height, calls>>

----------------------------------------------------------------------------
(* validateChain, lines 242-264 *)

LinkageText == "Hash value of previous block not consistent with block "

(* block.height.toString, line 256: the method itself, it is not called *)
HeightToString(b) == "function toString() { [native code] }"

(* line 254 *)
LinkageBroken(b, previous_block_hash) ==
    b.height > 0 /\ previous_block_hash # b.previousBlockHash

(* lines 249-252: validate() resolves with a boolean, which the then
   callback drops; the catch callback, the only one that records anything,
   runs for a rejected promise only, and after line 261 has resolved *)
ValidateRejects(b) == FALSE

(* the errorLog the promise is resolved with at line 261: the findings of
   the loop of lines 247-260 over the first n blocks.  caught, below, are
   the blocks whose catch callback is still to run then. *)
RECURSIVE ErrorLogUpTo(_, _)
ErrorLogUpTo(ch, n) ==
    IF n = 0 THEN <<>>
    ELSE LET previous_block_hash == IF n = 1 THEN Null ELSE ch[n - 1].hash
             before == ErrorLogUpTo(ch, n - 1)
         IN  IF LinkageBroken(ch[n], previous_block_hash)
             THEN Append(before, <<LinkageText, HeightToString(ch[n])>>)
             ELSE before

(* the heights of the blocks whose validate() yields false *)
FailingHeights(ch) == {ch[i].height : i \in {j \in 1..Len(ch) : ~BlockValidate(ch[j])}}

ValidateChain ==
    /\ constructed
    /\ lastOp' = [kind |-> "validateChain",
                  errorLog |-> ErrorLogUpTo(chain, Len(chain)),
                  caught |-> SelectSeq(chain, ValidateRejects),
                  failing |-> FailingHeights(chain),
                  scanned |-> Len(chain)]
    /\ UNCHANGED <<now, constructed, chain, height, calls>>

----------------------------------------------------------------------------
(* a committed block's body is overwritten from outside the class *)
CorruptBlock(i, data) ==
    /\ constructed
    /\ i \in 1..Len(chain)
    /\ Encode(data) # chain[i].body
    /\ chain' = [chain EXCEPT ![i].body = Encode(data)]
    /\ lastOp' = NoOp
    /\ UNCHANGED <<now, constructed, height, calls>>

Tick ==
    /\ now + ClockStep <= MaxTime
    /\ now' = now + ClockStep
    /\ UNCHANGED <<constructed, chain, height, calls, lastOp>>

Next ==
    \/ Constructor
    \/ InitializeChain
    \/ \E a \in Addresses, s \in Stamps, v \in VerifyOutcomes, x \in Stars :
           SubmitStar(a, s, v, x)
    \/ \E p \in Slots : AddBlockResume(p)
    \/ \E p \in Slots : SubmitStarResolve(p)
    \/ GetChainHeight
    \/ \E a \in Addresses : RequestMessageOwnershipVerification(a)
    \/ \E h \in HeightsAsked : GetBlockByHeight(h)
    \/ \E h \in HashesAsked : GetBlockByHash(h)
    \/ \E a \in QueryAddresses : GetStarsByWalletAddress(a)
    \/ StarsCallbacksResume
    \/ ValidateChain
    \/ Tick

Spec == Init /\ [][Next]_vars

(* the same, with blocks corrupted from outside *)
MaxCorruptions == 1
Corruptions == Cardinality({i \in 1..Len(chain) : ~BlockValidate(chain[i])})

ForgedData == StarData("mallory", "forged")

NextTampered ==
    \/ Next
    \/ \E i \in 1..Len(chain) :
           Corruptions < MaxCorruptions /\ CorruptBlock(i, ForgedData)

SpecTampered == Init /\ [][NextTampered]_vars

----------------------------------------------------------------------------
(* Properties *)

(* the submitStar invocations whose _addBlock has pushed its block *)
Pushed == {p \in Slots : calls[p].pc \in {"awaitAdd", "resolved"}}
ResolvedCalls == {p \in Slots : calls[p].pc = "resolved"}

(* C1: no two committed blocks carry the same height, whatever the
   interleaving of the submitStar / _addBlock invocations in flight. *)
C1_UniqueHeights ==
    \A i, j \in 1..Len(chain) : i # j => chain[i].height # chain[j].height

(* C2: every committed block after the first has as previousBlockHash the
   hash of the block before it, the first block after genesis included. *)
C2_Linkage ==
    \A i \in 2..Len(chain) : chain[i].previousBlockHash = chain[i - 1].hash

(* C3: the committed block at (zero-based) index i has height i. *)
C3_HeightIsIndex ==
    \A i \in 1..Len(chain) : chain[i].height = i - 1

(* C4: a submitStar invocation whose message is older than the window is
   rejected: no client invocation with such a message gets past the checks
   of submitStar (and so none appends a block). *)
C4_ExpiredRejected ==
    \A p \in Slots \ {0} :
        calls[p].pc # "idle" => ~JsGreater(calls[p].elapsed_time, ChallengeWindow)

(* C5: a run of submitStar that ends in a rejection leaves the chain and the
   height counter as they were, and a verifier answer of false is rejected
   with the invalid-signature error. *)
C5_RejectionMutatesNothing ==
    [][(lastOp'.kind = "submitStar" /\ lastOp'.outcome = "rejected")
          => /\ chain' = chain
             /\ height' = height
             /\ calls' = calls
             /\ lastOp'.error # ""
             /\ (lastOp'.verifier = "false" => lastOp'.error = InvalidSignatureError)]_vars

C5_Witness ==
    /\ lastOp.kind = "submitStar"
    /\ lastOp.outcome = "rejected"
    /\ lastOp.verifier = "false"
    /\ Len(chain) > 2
    /\ \E p \in Slots : calls[p].pc = "awaitPrev"

(* C6: on a constructed chain the blocks after genesis are as many as the
   submitStar invocations whose append has completed, each of which resolves
   (no such invocation is rejected); a resolved invocation resolved with a
   committed block whose body is the one the Block constructor built from
   {owner: address, star: star}. *)
C6_OneBlockPerSuccess ==
    constructed =>
        /\ Len(chain) - 1 = Cardinality(Pushed)
        /\ \A p \in ResolvedCalls :
               /\ \E i \in 1..Len(chain) : chain[i] = calls[p].block
               /\ calls[p].block.body = NewBlock(StarData(calls[p].address, calls[p].star)).body

C6_Witness ==
    /\ Cardinality(ResolvedCalls) = MaxCalls + 1
    /\ Len(chain) = MaxCalls + 2
    /\ \E i, j \in 1..Len(chain) : i # j /\ chain[i].height = chain[j].height

(* C7: once the constructor and the work it started are done, and before any
   client call, the chain has height 0 and one block, whose previousBlockHash
   is null and whose body is the genesis marker. *)
C7_FreshChain ==
    (/\ constructed
     /\ calls[0].pc \in {"idle", "resolved"}
     /\ \A p \in Slots \ {0} : calls[p].pc = "idle")
        => /\ height = 0
           /\ Len(chain) = 1
           /\ chain[1].previousBlockHash = Null
           /\ GetBData(chain[1]) = GenesisData

(* C8: getBlockByHash resolves with the matching block when exactly one
   committed block has the hash, rejects with the not-found error when none
   has, and rejects with the ambiguity error only when several have. *)
C8_GetBlockByHash ==
    lastOp.kind = "getBlockByHash" =>
        /\ lastOp.matches = 1 =>
               lastOp.result.outcome = "resolved" /\ Len(lastOp.result.blocks) = 1
        /\ lastOp.matches = 0 =>
               lastOp.result.outcome = "rejected" /\ lastOp.result.error = NotFoundError
        /\ lastOp.result.error = AmbiguousError => lastOp.matches > 1

(* the stars of the first n blocks that a wallet address owns, in chain order *)
RECURSIVE OwnedStars(_, _, _)
OwnedStars(ch, n, address) ==
    IF n = 0 THEN <<>>
    ELSE IF ch[n].height > 0 /\ OwnerOf(GetBData(ch[n])) = address
         THEN Append(OwnedStars(ch, n - 1, address), GetBData(ch[n]))
         ELSE OwnedStars(ch, n - 1, address)

(* C9: from the moment the promise of getStarsByWalletAddress is resolved,
   its result holds one entry for every committed non-genesis block the
   address owns, in chain order, and nothing else. *)
C9_StarsComplete ==
    (lastOp.kind = "getStarsByWalletAddress" /\ lastOp.resolved)
        => lastOp.stars = OwnedStars(chain, lastOp.scanned, lastOp.address)

(* C10: when a committed block fails its own validate(), the list
   validateChain resolves with holds a hash-integrity finding (a finding
   other than a linkage finding) for that block's height. *)
C10_CorruptionReported ==
    lastOp.kind = "validateChain" =>
        \A h \in lastOp.failing :
            \E k \in 1..Len(lastOp.errorLog) :
                /\ lastOp.errorLog[k][1] # LinkageText
                /\ lastOp.errorLog[k][2] = ToString(h)

(* C11: on a chain that only initializeChain and successful submitStar
   runs have written, validateChain resolves with the empty list. *)
C11_UntouchedChainValid ==
    lastOp.kind = "validateChain" => lastOp.errorLog = <<>>

(* the linkage findings of the first n blocks: one for each block after
   genesis whose previousBlockHash is not its predecessor's hash, tagged
   with the block's height, in the order of the chain *)
RECURSIVE LinkageFindings(_, _)
LinkageFindings(ch, n) ==
    IF n = 0 THEN <<>>
    ELSE LET before == LinkageFindings(ch, n - 1)
         IN  IF ch[n].height > 0
                /\ (IF n = 1 THEN Null ELSE ch[n - 1].hash) # ch[n].previousBlockHash
             THEN Append(before, <<LinkageText, ToString(ch[n].height)>>)
             ELSE before

(* C12: validateChain records a linkage finding for exactly the blocks after
   genesis whose previousBlockHash differs from the hash of the block before
   them, each tagged with its block's height, in the order of the chain, and
   goes on after a finding. *)
C12_LinkageTagged ==
    lastOp.kind = "validateChain" =>
        lastOp.errorLog = LinkageFindings(chain, lastOp.scanned)

(* the digest of a block's height, time, previousBlockHash and body, taken
   as line 100 takes it: over the block with its hash field as the
   constructor left it *)
DigestOfFields(b) ==
    SHA256(JSONStringify([b EXCEPT !.hash = NewBlock(GenesisData).hash]))

(* C13: the hash stored in every committed block is the digest of that
   block's own height, time, previousBlockHash and body as they stand in the
   chain: the hash was taken after they were assigned and none has changed
   since.  It holds as well for the block an invocation holds after its
   append. *)
C13_HashOverOwnFields ==
    /\ \A i \in 1..Len(chain) : chain[i].hash = DigestOfFields(chain[i])
    /\ \A p \in Pushed : calls[p].block.hash = DigestOfFields(calls[p].block)

(* two racing appends, given the same height, committed at different times *)
C13_Witness ==
    \E i, j \in 1..Len(chain) :
        /\ i < j
        /\ chain[i].height = chain[j].height
        /\ chain[i].time # chain[j].time
        /\ chain[j].previousBlockHash # Null

(* C14: the heights follow the order in which the invocations entered
   _addBlock: of two invocations that have appended, the one that entered
   first (the records are taken in the order of entry) has the block of
   strictly lower height. *)
C14_EntryOrder ==
    \A p, q \in Pushed :
        p < q => calls[p].block.height < calls[q].block.height

(* C15: initializeChain is idempotent: on a chain that is not empty it is a
   no-op.  A client's call that found such a chain left the chain and the
   height as they were, and the call every submitStar makes at line 155
   would leave them as they are. *)
C15_InitializeChainIdempotent ==
    /\ (lastOp.kind = "initializeChain" /\ Len(lastOp.before.chain) > 0)
           => Store(chain, height) = lastOp.before
    /\ Len(chain) > 0
           => InitializeChainOn(Store(chain, height), now) = Store(chain, height)

(* initializeChain called by a client after the constructor and a client's
   submitStar have called it, on a chain of three blocks or more *)
C15_Witness ==
    /\ lastOp.kind = "initializeChain"
    /\ Len(chain) >= 3
    /\ \E p \in Slots \ {0} : calls[p].pc # "idle"

(* C16: the chain is append-only: every step leaves each committed block at
   its index with its fields, so the chain of a state is a prefix of the
   chain of the state after it (and so of every later state). *)
C16_AppendOnly ==
    [][/\ Len(chain') >= Len(chain)
       /\ SubSeq(chain', 1, Len(chain)) = chain]_vars

(* a client's block appended behind the constructor's two, with another
   append still suspended *)
C16_Witness ==
    /\ Len(chain) >= 3
    /\ \E p, q \in Slots \ {0} : calls[p].pc = "awaitAdd" /\ calls[q].pc = "awaitPrev"

(* the operations that only read *)
ReadKinds ==
    {"getBlockByHash", "getBlockByHeight", "getStarsByWalletAddress",
     "validateChain", "getChainHeight"}

(* C17: getBlockByHash, getBlockByHeight, getStarsByWalletAddress,
   validateChain and getChainHeight leave the chain and the height as they
   were: so does every step of one of them, the resumption of the callbacks
   of getStarsByWalletAddress included. *)
C17_ReadsMutateNothing ==
    [][lastOp'.kind \in ReadKinds => chain' = chain /\ height' = height]_vars

(* a block looked up by its height while an append is suspended *)
C17_Witness ==
    /\ lastOp.kind = "getBlockByHeight"
    /\ lastOp.value # Null
    /\ Len(chain) >= 3
    /\ \E p \in Slots : calls[p].pc = "awaitPrev"

(* C18: requestMessageOwnershipVerification(address) resolves with
   <address>:<epochSeconds>:starRegistry, so that the timestamp extraction
   of submitStar (lines 148-149) gives back the reading of the clock at the
   time of the request. *)
C18_ChallengeMessage ==
    lastOp.kind = "requestMessageOwnershipVerification" =>
        /\ lastOp.message = Message(lastOp.address, ToString(lastOp.requestedAt))
        /\ ParseInt(SplitColon(lastOp.message)[2]) = Num(lastOp.requestedAt)

(* C19: in every state the height counter is the number of blocks less one. *)
C19_HeightIsLength == height = Len(chain) - 1

(* the body of the genesis block (line 55) *)
GenesisBody == NewBlock(GenesisData).body

(* C20: genesis is created exactly once: whatever the interleaving of the
   constructor's, initializeChain's and submitStar's attempts, the chain of
   a constructed object holds one block with the genesis body, its first. *)
C20_OneGenesis ==
    constructed =>
        {i \in 1..Len(chain) : chain[i].body = GenesisBody} = {1}

(* two submitStar invocations in flight together, each of which has called
   initializeChain, after a client's own call of it *)
C20_Witness ==
    /\ lastOp.kind = "initializeChain"
    /\ \E p, q \in Slots \ {0} :
           p # q /\ calls[p].pc = "awaitPrev" /\ calls[q].pc = "awaitPrev"

====
